---- MODULE Spec2Model ----
(***************************************************************************)
(* Model of the data-acquisition layer of panorama-investidor:             *)
(*   src/data_provider.py  get_market_data and its two provider clients,   *)
(*                         memoised by st.cache_data(ttl=600)              *)
(*   src/app.py            get_data_with_fallback (period-narrowing)       *)
(*                                                                         *)
(* Strings that the code transforms (ticker symbols, exception messages)   *)
(* are sequences, so that strip/upper/lower and the substring test are     *)
(* computed.  A DataFrame is a sequence of rows [age, c, v]: the row's     *)
(* date as an age in days before today, its Close and its Volume (NaN      *)
(* when missing).  Time is in seconds, and kept as ages: a cache entry      *)
(* carries the time since it was stored and is gone once that reaches the  *)
(* time-to-live.                                                           *)
(*                                                                         *)
(* Spec lets main() run with any inputs, MaxCalls times.  SpecRerun lets   *)
(* it run once with any inputs and then rerun, as a Streamlit script does  *)
(* on every interaction, with the widgets unchanged.                       *)
(* FairRerun is SpecRerun with a running call going on.  SpecDirect calls  *)
(* get_data_with_fallback with any period string.  SpecIndicators applies  *)
(* calculate_indicators of src/app.py and calcular_metricas of             *)
(* src/metrics.py to a series.                                             *)
(***************************************************************************)
EXTENDS Integers, Sequences, FiniteSets, TLC

(* ------------------------------ bounds --------------------------------- *)

\* page runs with freely chosen inputs in one behaviour of Spec
MaxCalls == 2
\* reruns of the page after its first run in one behaviour of SpecRerun
MaxReruns == 2
\* rows of a series handed to the indicators
MaxRows == 3

(* ------------------------- program constants --------------------------- *)

\* @st.cache_data(ttl=600)
TTL == 600
\* for attempt in range(1, 4)
MaxAttempts == 3

\* the clock advances by half a time-to-live
TickStep == TTL \div 2

(* ------------------------------ values --------------------------------- *)

\* an Optional[DataFrame]: Python's None, or a frame with its rows
None == [none |-> TRUE, rows |-> <<>>]
Some(df) == [none |-> FALSE, rows |-> df]

\* a missing number (prices and volumes are positive)
NaN == 0 - 1

\* period_labels of render_sidebar
Periods == {"1mo", "6mo", "1y", "5y", "max"}

\* a period string outside period_labels and outside _period_to_days;
\* get_data_with_fallback(symbol: str, period: str) takes any string
UnknownPeriods == {"2w"}
AnyPeriods == Periods \cup UnknownPeriods

\* the period the fallback of get_data_with_fallback narrows to
FallbackPeriod == "6mo"

\* ticker strings a caller may pass, as sequences of characters
RawSymbols == { <<"A">>, <<"a", " ">>, <<" ">> }

IsSpace(ch) == ch \in {" ", "\t", "\n"}

\* str.strip()
RECURSIVE LStrip(_)
LStrip(s) == IF s # <<>> /\ IsSpace(Head(s)) THEN LStrip(Tail(s)) ELSE s

RECURSIVE RStrip(_)
RStrip(s) ==
    IF s # <<>> /\ IsSpace(s[Len(s)]) THEN RStrip(SubSeq(s, 1, Len(s) - 1)) ELSE s

Strip(s) == RStrip(LStrip(s))

UpperCh(ch) == CASE ch = "a" -> "A" [] ch = "b" -> "B" [] OTHER -> ch

\* str.upper()
Upper(s) == [i \in 1..Len(s) |-> UpperCh(s[i])]

\* the ticker upper-cased but not stripped
NormalizeTickerNoStrip(ticker) == Upper(ticker)

\* ticker.strip().upper()
NormalizeTicker(ticker) == Upper(Strip(ticker))

(* --------------------------- exception text ---------------------------- *)

\* an exception message is a sequence of words
LowerWord(w) ==
    CASE w = "Rate" -> "rate"
      [] w = "Limited" -> "limited"
      [] w = "Timeout" -> "timeout"
      [] w = "Too" -> "too"
      [] w = "Many" -> "many"
      [] w = "Requests." -> "requests."
      [] w = "Client" -> "client"
      [] w = "Error" -> "error"
      [] w = "Read" -> "read"
      [] w = "Expecting" -> "expecting"
      [] OTHER -> w

\* str(error).lower()
LowerMsg(msg) == [i \in 1..Len(msg) |-> LowerWord(msg[i])]

\* words that contain "429" / begin with "limit"
Has429(w) == w \in {"429", "HTTP429"}
StartsLimit(w) == w \in {"limit", "limited", "limit."}

\* "429" in error_message or "rate limit" in error_message
_is_rate_limit_error(error) ==
    LET m == LowerMsg(error) IN
        \/ \E i \in 1..Len(m) : Has429(m[i])
        \/ \E i \in 1..(Len(m) - 1) : m[i] = "rate" /\ StartsLimit(m[i + 1])

\* messages the providers' libraries raise
MsgTooMany == <<"Too", "Many", "Requests.", "Rate", "Limited">>
Msg429 == <<"429", "Client", "Error">>
MsgTimeout == <<"Read", "Timeout">>
MsgDecode == <<"Expecting", "value">>

(* ------------------------------ frames --------------------------------- *)

Row(age, c, v) == [age |-> age, c |-> c, v |-> v]

\* df.dropna(how="all"): rows whose every kept column is missing go
RECURSIVE DropAllNaN(_)
DropAllNaN(df) ==
    IF df = <<>> THEN <<>>
    ELSE IF Head(df).c = NaN /\ Head(df).v = NaN
         THEN DropAllNaN(Tail(df))
         ELSE <<Head(df)>> \o DropAllNaN(Tail(df))

\* insert a row into a frame sorted by ascending date (descending age)
RECURSIVE InsertByDate(_, _)
InsertByDate(r, df) ==
    IF df = <<>> THEN <<r>>
    ELSE IF r.age >= Head(df).age THEN <<r>> \o df
         ELSE <<Head(df)>> \o InsertByDate(r, Tail(df))

\* df.sort_index()
RECURSIVE SortIndex(_)
SortIndex(df) ==
    IF df = <<>> THEN <<>> ELSE InsertByDate(Head(df), SortIndex(Tail(df)))

\* _normalize_history
_normalize_history(df) ==
    IF df = <<>> THEN None
    ELSE LET cleaned_df == SortIndex(DropAllNaN(df))
         IN  IF cleaned_df # <<>> THEN Some(cleaned_df) ELSE None

\* data is not None and not data.empty
HasData(x) == ~x.none /\ x.rows # <<>>

\* _period_to_days; a period outside the mapping gives None, which the one
\* caller tests with "if days:", so None is written 0 here
_period_to_days(period) ==
    CASE period = "1mo" -> 31
      [] period = "3mo" -> 93
      [] period = "6mo" -> 186
      [] period = "1y" -> 366
      [] period = "2y" -> 731
      [] period = "5y" -> 1827
      [] OTHER -> 0

\* df[df.index >= cutoff]
RECURSIVE CutOff(_, _)
CutOff(df, days) ==
    IF df = <<>> THEN <<>>
    ELSE IF Head(df).age < days
         THEN <<Head(df)>> \o CutOff(Tail(df), days)
         ELSE CutOff(Tail(df), days)

\* frames a provider may hand back
FrameEmpty == <<>>
FrameNaN == <<Row(5, NaN, NaN)>>
FrameShort == <<Row(3, 11, NaN), Row(7, NaN, NaN), Row(9, 10, 50)>>
FrameLong == <<Row(400, 8, 70), Row(20, 9, 60)>>

FrameOld == <<Row(400, 8, 70)>>

\* what ticker_obj.history(period=period) may do: hand back a frame or raise
YfOutcomes ==
    [k : {"df"}, df : {FrameEmpty, FrameNaN, FrameShort, FrameLong}, e : {<<>>}]
    \cup [k : {"raise"}, df : {FrameEmpty}, e : {MsgTooMany, Msg429, MsgTimeout}]

\* what the Alpha Vantage request may do: requests.get raises (timeout),
\* raise_for_status raises (status 429), response.json() raises, the
\* payload lacks "Time Series (Daily)" (a Note or an Error Message instead),
\* or the payload carries the series
AlphaOutcomes ==
    [k : {"series"}, df : {FrameEmpty, FrameOld, FrameLong}, e : {<<>>}]
    \cup [k : {"nokey"}, df : {FrameEmpty}, e : {<<>>}]
    \cup [k : {"raise"}, df : {FrameEmpty},
          e : {Msg429, MsgTimeout, MsgDecode}]

\* how a function call ends: it returns v, or raises an exception with text e
Ret(v) == [t |-> "return", v |-> v, e |-> <<>>]
Raise(e) == [t |-> "raise", v |-> None, e |-> e]

(* ----------------------------- numbers --------------------------------- *)

\* An Optional[float]: Python's None, a not-a-number, or a number.  Numbers
\* are kept in fixed point: prices and volumes whole, returns, ratios and
\* their statistics in percent.  A quotient keeps its whole part; a variance
\* and a root are rounded up, so that they are 0 exactly when they are 0.
FNone == [k |-> "none", x |-> 0]
FNaN == [k |-> "nan", x |-> 0]
Num(x) == [k |-> "num", x |-> x]

\* value is None
IsNone(f) == f.k = "none"

RECURSIVE SumSeq(_)
SumSeq(xs) == IF xs = <<>> THEN 0 ELSE Head(xs) + SumSeq(Tail(xs))

CeilDiv(a, b) == (a + b - 1) \div b

\* the square root of x >= 0, rounded up
Root(x) == CHOOSE k \in 0..x : k * k >= x /\ (k = 0 \/ (k - 1) * (k - 1) < x)

Sign(x) == IF x > 0 THEN 1 ELSE IF x < 0 THEN 0 - 1 ELSE 0

\* Series.mean(): not-a-number for an empty series
Mean(xs) == IF xs = <<>> THEN FNaN ELSE Num(SumSeq(xs) \div Len(xs))

\* Series.var(), ddof=1: not-a-number with fewer than 2 values
Var(xs) ==
    LET n == Len(xs)
        numer == n * SumSeq([i \in 1..n |-> xs[i] * xs[i]]) - SumSeq(xs) * SumSeq(xs)
    IN  IF n < 2 THEN FNaN ELSE Num(CeilDiv(numer, n * (n - 1)))

\* Series.std(), ddof=1
Std(xs) == IF Var(xs).k = "nan" THEN FNaN ELSE Num(Root(Var(xs).x))

\* the days of a trading year
TRADING_DAYS_PER_YEAR == 252
\* TRADING_DAYS_PER_YEAR**0.5, in hundredths
Sqrt252 == 1587
Annualized(x) == (x * Sqrt252) \div 100

\* df["Close"].dropna(): the rows that have a close, with their dates
DropnaClose(df) == SelectSeq(df, LAMBDA r : r.c # NaN)

\* the values of a series
Closes(close) == [i \in 1..Len(close) |-> close[i].c]

\* close.pct_change().dropna(): the return of each close but the first, in
\* percent, with its date
PctChange(close) ==
    [i \in 1..(Len(close) - 1) |->
        [age |-> close[i + 1].age,
         r |-> (close[i + 1].c * 100) \div close[i].c - 100]]

Rs(returns) == [i \in 1..Len(returns) |-> returns[i].r]

(* ---------------------------- indicators ------------------------------- *)

\* (close.iloc[-1] / close.iloc[0] - 1) * 100
TotalReturn(close) == (close[Len(close)].c * 100) \div close[1].c - 100

\* the largest of cs[2..i]: cummax of the cumulative product of 1 + returns,
\* which at the i-th close is that close over the first
RECURSIVE RunningMax(_, _)
RunningMax(cs, i) ==
    IF i = 2 THEN cs[2]
    ELSE IF cs[i] > RunningMax(cs, i - 1) THEN cs[i] ELSE RunningMax(cs, i - 1)

\* (cumulative / running_max - 1) at the i-th close, in percent
DrawdownAt(cs, i) == (cs[i] * 100) \div RunningMax(cs, i) - 100

RECURSIVE MinDrawdown(_, _)
MinDrawdown(cs, i) ==
    IF i = 2 THEN DrawdownAt(cs, 2)
    ELSE IF DrawdownAt(cs, i) < MinDrawdown(cs, i - 1)
         THEN DrawdownAt(cs, i) ELSE MinDrawdown(cs, i - 1)

\* pd.concat([returns, benchmark_returns], axis=1, join="inner").dropna():
\* the pairs of returns of one date
Aligned(returns, benchmark_returns) ==
    LET both == SelectSeq(returns,
                    LAMBDA a : \E j \in 1..Len(benchmark_returns) :
                                  benchmark_returns[j].age = a.age)
    IN  [i \in 1..Len(both) |->
            [asset |-> both[i].r,
             benchmark |-> LET j == CHOOSE j \in 1..Len(benchmark_returns) :
                                       benchmark_returns[j].age = both[i].age
                           IN  benchmark_returns[j].r]]

\* n(n-1) times the covariance of two columns (ddof=1)
CovNumer(xs, ys) ==
    LET n == Len(xs)
    IN  n * SumSeq([i \in 1..n |-> xs[i] * ys[i]]) - SumSeq(xs) * SumSeq(ys)

\* app.py lines 151-159; the beta is in hundredths
BetaVsIbov(returns, benchmark_df) ==
    IF ~HasData(benchmark_df) THEN FNone
    ELSE LET aligned == Aligned(returns, PctChange(DropnaClose(benchmark_df.rows)))
             asset == [i \in 1..Len(aligned) |-> aligned[i].asset]
             benchmark == [i \in 1..Len(aligned) |-> aligned[i].benchmark]
         IN  IF Len(aligned) > 1 /\ CovNumer(benchmark, benchmark) # 0
             THEN Num((CovNumer(asset, benchmark) * 100)
                          \div CovNumer(benchmark, benchmark))
             ELSE FNone

AllNoneMetricas ==
    [retorno_acumulado |-> FNone, cagr |-> FNone,
     volatilidade_anualizada |-> FNone, sharpe_ratio |-> FNone,
     max_drawdown |-> FNone, beta_vs_ibov |-> FNone]

\* calcular_metricas of app.py.  Of the CAGR, a fractional power, the sign
\* is kept.  "returns.std() != 0" is true of a not-a-number, and a quotient
\* by a not-a-number is one.
calcular_metricas(df, benchmark_df) ==
    IF df = <<>> THEN AllNoneMetricas
    ELSE LET close == DropnaClose(df)
             returns == PctChange(close)
             std == Std(Rs(returns))
         IN  IF Len(close) < 2 THEN AllNoneMetricas
             ELSE [retorno_acumulado |-> Num(TotalReturn(close)),
                   cagr |-> IF Len(returns) > 0
                            THEN Num(Sign(close[Len(close)].c - close[1].c))
                            ELSE FNone,
                   volatilidade_anualizada |->
                       IF returns = <<>> THEN FNone
                       ELSE IF std.k = "nan" THEN FNaN
                       ELSE Num(Annualized(std.x)),
                   sharpe_ratio |->
                       IF returns # <<>> /\ std # Num(0)
                       THEN IF std.k = "nan" THEN FNaN
                            ELSE Num(Annualized((Mean(Rs(returns)).x * 100) \div std.x))
                       ELSE FNone,
                   max_drawdown |->
                       IF returns # <<>>
                       THEN Num(MinDrawdown(Closes(close), Len(close)))
                       ELSE FNone,
                   beta_vs_ibov |-> BetaVsIbov(returns, benchmark_df)]

\* a key the dict does not have
FMissing == [k |-> "missing", x |-> 0]

\* history["Volume"].mean(): the mean of the volumes there are
AvgVolume(history) ==
    LET vols == SelectSeq(history, LAMBDA r : r.v # NaN)
    IN  Mean([i \in 1..Len(vols) |-> vols[i].v])

\* close.tail(n).mean() if len(close) >= n else None
MovingAverage(close, n) ==
    IF Len(close) >= n
    THEN Mean(Closes(SubSeq(close, Len(close) - n + 1, Len(close))))
    ELSE FNone

\* calculate_indicators of app.py; the dict returned for an empty frame has
\* eight of the twelve keys
calculate_indicators(history, benchmark_history) ==
    IF history = <<>>
    THEN [last_price |-> FNone, price_change_pct |-> FNone,
          period_return |-> FNone, volatility |-> FNone,
          max_drawdown |-> FNone, retorno_acumulado |-> FMissing,
          cagr |-> FMissing, sharpe_ratio |-> FMissing,
          beta_vs_ibov |-> FMissing, avg_volume |-> FNone,
          ma20 |-> FNone, ma50 |-> FNone]
    ELSE LET close == DropnaClose(history)
             last_price == IF close # <<>> THEN Num(close[Len(close)].c) ELSE FNone
             previous_close ==
                 IF Len(close) > 1 THEN Num(close[Len(close) - 1].c) ELSE FNone
             metricas == calcular_metricas(history, benchmark_history)
         IN  [last_price |-> last_price,
              price_change_pct |->
                  IF ~IsNone(last_price) /\ previous_close \notin {FNone, Num(0)}
                  THEN Num((last_price.x * 100) \div previous_close.x - 100)
                  ELSE FNone,
              period_return |->
                  IF Len(close) > 1 THEN Num(TotalReturn(close)) ELSE FNone,
              volatility |-> metricas.volatilidade_anualizada,
              max_drawdown |-> metricas.max_drawdown,
              retorno_acumulado |-> metricas.retorno_acumulado,
              cagr |-> metricas.cagr,
              sharpe_ratio |-> metricas.sharpe_ratio,
              beta_vs_ibov |-> metricas.beta_vs_ibov,
              avg_volume |-> AvgVolume(history),
              ma20 |-> MovingAverage(close, 20),
              ma50 |-> MovingAverage(close, 50)]

\* _empty_metrics of metrics.py
_empty_metrics ==
    [retorno_acumulado |-> FNone, cagr |-> FNone,
     volatilidade_anualizada |-> FNone, sharpe_ratio |-> FNone,
     maximo_drawdown |-> FNone]

\* calcular_metricas of metrics.py.  The index is a DatetimeIndex, so the
\* years are the days between the first and the last close over 365.25,
\* which is positive when there are two closes.  Of the CAGR the sign is
\* kept.
metrics_calcular_metricas(df) ==
    IF df = <<>> THEN _empty_metrics
    ELSE LET close == DropnaClose(df)
             retornos_diarios == PctChange(close)
             desvio == Std(Rs(retornos_diarios))
             grows == Len(close) > 1 /\ close[1].c > 0
             dias == close[1].age - close[Len(close)].age
         IN  IF close = <<>> THEN _empty_metrics
             ELSE [retorno_acumulado |->
                       IF grows THEN Num(TotalReturn(close)) ELSE Num(0),
                   cagr |->
                       IF grows /\ dias > 0
                       THEN Num(Sign(close[Len(close)].c - close[1].c))
                       ELSE Num(0),
                   volatilidade_anualizada |->
                       IF retornos_diarios # <<>> /\ desvio.k # "nan"
                       THEN Num(Annualized(desvio.x))
                       ELSE FNone,
                   sharpe_ratio |->
                       IF retornos_diarios # <<>> /\ desvio.k # "nan" /\ desvio.x > 0
                       THEN Num(Annualized((Mean(Rs(retornos_diarios)).x * 100)
                                               \div desvio.x))
                       ELSE FNone,
                   maximo_drawdown |->
                       IF retornos_diarios # <<>>
                       THEN Num(MinDrawdown(Closes(close), Len(close)))
                       ELSE FNone]

\* series handed to the indicators: up to MaxRows rows on consecutive days,
\* each with a close or a volume, as _normalize_history leaves them
CloseValues == {NaN, 100, 200, 400}
VolumeValues == {NaN, 50}
RowKinds == {k \in [c : CloseValues, v : VolumeValues] : k.c # NaN \/ k.v # NaN}
Dated(ks) == [i \in 1..Len(ks) |-> Row(Len(ks) - i + 1, ks[i].c, ks[i].v)]
Histories == {Dated(ks) : ks \in UNION {[1..n -> RowKinds] : n \in 0..MaxRows}}

\* what get_data_with_fallback("^BVSP", period) may give
Benchmarks ==
    {None,
     Some(<<Row(3, 100, NaN), Row(2, 200, NaN), Row(1, 100, NaN)>>),
     Some(<<Row(3, 100, NaN), Row(2, 100, NaN), Row(1, 100, NaN)>>)}

NoIndicators == calculate_indicators(<<>>, None)

(* ------------------------------ state ---------------------------------- *)

VARIABLES
    apiKey,     \* whether API_KEY is set (read once at import)
    cache,      \* the st.cache_data store of get_market_data
    calls,      \* top-level requests so far
    pc,         \* get_data_with_fallback: "idle", "call1", "call2", "done"
    req,        \* its arguments [symbol, period]
    mpc,        \* get_market_data: "off", "enter", "alpha", "yf", "ret"
    cur,        \* its arguments [ticker, period]
    attempt,    \* loop variable of _fetch_yfinance_history
    result,     \* how the running get_market_data call ended
    ret,        \* how get_data_with_fallback ended
    log,        \* network requests and sleeps of the running get_market_data
    gmdlog,     \* get_market_data calls of the running request, as they ended
    prev,       \* the request before the running one
    ipc,        \* the indicators: "off", "input", "calculated", "done"
    history,    \* the series handed to calculate_indicators
    benchmark_history,  \* the benchmark's series, or None
    indicators, \* what calculate_indicators returned
    metricas    \* what calcular_metricas of metrics.py returned

ivars == <<ipc, history, benchmark_history, indicators, metricas>>

vars == <<apiKey, cache, calls, pc, req, mpc, cur, attempt,
          result, ret, log, gmdlog, prev, ivars>>

Keys == RawSymbols \X AnyPeriods

NoEntry == [set |-> FALSE, val |-> None, age |-> 0]
NoReq == [symbol |-> <<>>, period |-> "none", age |-> 0]
NoCur == [ticker |-> <<>>, period |-> "none"]
NoPrev == [any |-> FALSE, symbol |-> <<>>, period |-> "none", ret |-> Ret(None),
           fb |-> FALSE, fetched |-> FALSE, age |-> 0]

(* ------------------- st.cache_data(ttl=600) -------------------------- *)

\* the key of a memoised call: the arguments as passed
CacheKey(ticker, period) == <<ticker, period>>

\* the comparison of the age with the time-to-live, inverted
FreshInverted(entry) == entry.set /\ entry.age >= TTL

\* an entry is served while it is younger than the time-to-live
Fresh(entry) == entry.set /\ entry.age < TTL

\* the decorator stores whatever the function returns, None included
Cacheable(v) == TRUE

Stored(c, ticker, period, v) ==
    IF Cacheable(v)
    THEN [c EXCEPT ![CacheKey(ticker, period)] = [set |-> TRUE, val |-> v, age |-> 0]]
    ELSE c

\* d seconds later: entries are older, and those past the time-to-live gone
Later(c, d) ==
    [k \in DOMAIN c |->
        IF c[k].set /\ c[k].age + d < TTL
        THEN [c[k] EXCEPT !.age = c[k].age + d]
        ELSE NoEntry]

(* ------------------------ provider clients ----------------------------- *)

\* _fetch_alpha_vantage_history, given what the request does.  Without an
\* API key it returns None before any request is made.  (outputsize only
\* changes what the provider sends, which is any of AlphaOutcomes.)
_fetch_alpha_vantage_history(key, period, o) ==
    IF ~key THEN Ret(None)
    ELSE IF o.k = "raise" THEN Raise(o.e)
    ELSE IF o.k = "nokey" \/ o.df = <<>> THEN Ret(None)
    ELSE LET df == SortIndex(o.df)
             days == IF period # "max" THEN _period_to_days(period) ELSE 0
         IN  Ret(_normalize_history(IF days # 0 THEN CutOff(df, days) ELSE df))

\* the primary's data is ignored
AfterAlphaIgnoresData(r) == "yfinance"

\* the primary's exception is not caught
AfterAlphaNoExcept(r) ==
    IF r.t = "raise" THEN "raise"
    ELSE IF HasData(r.v) THEN "return" ELSE "yfinance"

\* get_market_data, lines 130-136: the primary's data is used when it is
\* there; anything else, an exception included, falls through to yfinance
AfterAlpha(r) ==
    IF r.t = "return" /\ HasData(r.v) THEN "return" ELSE "yfinance"

\* time.sleep(0.8 * attempt), in tenths of a second
Backoff(n) == 8 * n

\* the loop without the rate-limit test: a rate limit is retried like any error
YfRoundRetriesRateLimit(n, o) ==
    IF o.k = "df"
    THEN [next |-> "return", res |-> Ret(_normalize_history(o.df)), sleep |-> 0]
    ELSE IF n = MaxAttempts
    THEN [next |-> "return", res |-> Ret(None), sleep |-> 0]
    ELSE [next |-> "loop", res |-> Ret(None), sleep |-> Backoff(n)]

\* the loop giving up on the first exception
YfRoundGivesUp(n, o) ==
    IF o.k = "df"
    THEN [next |-> "return", res |-> Ret(_normalize_history(o.df)), sleep |-> 0]
    ELSE [next |-> "return", res |-> Ret(None), sleep |-> 0]

\* the loop with one more round: range(1, 5)
YfRoundOneMore(n, o) ==
    IF o.k = "df"
    THEN [next |-> "return", res |-> Ret(_normalize_history(o.df)), sleep |-> 0]
    ELSE IF _is_rate_limit_error(o.e)
    THEN [next |-> "return", res |-> Ret(None), sleep |-> 0]
    ELSE IF n = MaxAttempts + 1
    THEN [next |-> "return", res |-> Ret(None), sleep |-> 0]
    ELSE [next |-> "loop", res |-> Ret(None), sleep |-> Backoff(n)]

\* one round of the loop of _fetch_yfinance_history, given what
\* ticker_obj.history does: the function returns, or sleeps and loops
YfRound(n, o) ==
    IF o.k = "df"
    THEN [next |-> "return", res |-> Ret(_normalize_history(o.df)), sleep |-> 0]
    ELSE IF _is_rate_limit_error(o.e)
    THEN [next |-> "return", res |-> Ret(None), sleep |-> 0]
    ELSE IF n = MaxAttempts
    THEN [next |-> "return", res |-> Ret(None), sleep |-> 0]
    ELSE [next |-> "loop", res |-> Ret(None), sleep |-> Backoff(n)]

\* get_data_with_fallback, line 85
FallbackWanted(period) == period # FallbackPeriod

(* ------------------------------ events --------------------------------- *)

NoOutcome == [k |-> "none", df |-> <<>>, e |-> <<>>]

NetEvent(p, period, n, o, r) ==
    [p |-> p, period |-> period, n |-> n, o |-> o, res |-> r]

SleepEvent(period, d) ==
    [p |-> "sleep", period |-> period, n |-> d, o |-> NoOutcome, res |-> Ret(None)]

\* whether an event is a request to a provider
IsNet(ev) == ev.p \in {"alpha", "yf"}

\* how many events of a log are of kind p
CountOf(l, p) == Cardinality({i \in 1..Len(l) : l[i].p = p})

CallEvent(c, hit, r, l) ==
    [ticker |-> c.ticker, period |-> c.period, hit |-> hit, res |-> r,
     net |-> \E i \in 1..Len(l) : IsNet(l[i]),
     alpha |-> CountOf(l, "alpha"), yf |-> CountOf(l, "yf"),
     sleeps |-> CountOf(l, "sleep")]

(* ------------------------------ actions -------------------------------- *)

Init ==
    /\ apiKey \in BOOLEAN
    /\ cache = [k \in Keys |-> NoEntry]
    /\ calls = 0
    /\ pc = "idle"
    /\ req = NoReq
    /\ mpc = "off"
    /\ cur = NoCur
    /\ attempt = 0
    /\ result = Ret(None)
    /\ ret = Ret(None)
    /\ log = <<>>
    /\ gmdlog = <<>>
    /\ prev = NoPrev
    /\ ipc = "off"
    /\ history = <<>>
    /\ benchmark_history = None
    /\ indicators = NoIndicators
    /\ metricas = _empty_metrics

\* main(): history = get_data_with_fallback(ticker, period), whose first
\* statement calls get_market_data(symbol, period).  (The benchmark request
\* that follows in main() is one more request of the same kind.)
Request ==
    /\ pc = "idle"
    /\ calls < MaxCalls
    /\ \E symbol \in RawSymbols, period \in Periods :
          /\ req' = [symbol |-> symbol, period |-> period, age |-> 0]
          /\ cur' = [ticker |-> symbol, period |-> period]
    /\ calls' = calls + 1
    /\ pc' = "call1"
    /\ mpc' = "enter"
    /\ UNCHANGED <<ivars, apiKey, cache, attempt, result, ret, log, gmdlog, prev>>

\* the memoised call finds a fresh entry: the body does not run
CacheHit ==
    /\ mpc = "enter"
    /\ Fresh(cache[CacheKey(cur.ticker, cur.period)])
    /\ result' = Ret(cache[CacheKey(cur.ticker, cur.period)].val)
    /\ gmdlog' = Append(gmdlog, CallEvent(cur, TRUE, result', log))
    /\ mpc' = "ret"
    /\ UNCHANGED <<ivars, apiKey, cache, calls, pc, req, cur, attempt, ret, log, prev>>

\* the body of get_market_data ends with r: a returned value is stored by
\* the decorator, an exception is not; the loop variable is gone
EndBody(r, l) ==
    /\ log' = l
    /\ attempt' = 0
    /\ result' = r
    /\ cache' = IF r.t = "return"
                THEN Stored(cache, cur.ticker, cur.period, r.v)
                ELSE cache
    /\ gmdlog' = Append(gmdlog, CallEvent(cur, FALSE, r, l))
    /\ mpc' = "ret"

\* no fresh entry and an empty normalized ticker: lines 126-128
EmptyTicker ==
    /\ mpc = "enter"
    /\ ~Fresh(cache[CacheKey(cur.ticker, cur.period)])
    /\ NormalizeTicker(cur.ticker) = <<>>
    /\ EndBody(Ret(None), log)
    /\ UNCHANGED <<ivars, apiKey, calls, pc, req, cur, ret, prev>>

\* no fresh entry and a ticker: the body goes on to the primary provider
EnterBody ==
    /\ mpc = "enter"
    /\ ~Fresh(cache[CacheKey(cur.ticker, cur.period)])
    /\ NormalizeTicker(cur.ticker) # <<>>
    /\ mpc' = "alpha"
    /\ UNCHANGED <<ivars, apiKey, cache, calls, pc, req, cur, attempt, result,
                   ret, log, gmdlog, prev>>

\* _fetch_alpha_vantage_history without an API key: None, no request
AlphaNoKey ==
    /\ mpc = "alpha"
    /\ ~apiKey
    /\ mpc' = "yf"
    /\ attempt' = 1
    /\ UNCHANGED <<ivars, apiKey, cache, calls, pc, req, cur, result, ret, log,
                   gmdlog, prev>>

\* the Alpha Vantage request and what get_market_data does with its result
AlphaFetch ==
    /\ mpc = "alpha"
    /\ apiKey
    /\ \E o \in AlphaOutcomes :
          LET r == _fetch_alpha_vantage_history(apiKey, cur.period, o)
              l == Append(log, NetEvent("alpha", cur.period, 1, o, r))
          IN
          IF AfterAlpha(r) = "yfinance"
          THEN /\ log' = l
               /\ mpc' = "yf"
               /\ attempt' = 1
               /\ UNCHANGED <<cache, result, gmdlog>>
          ELSE EndBody(r, l)
    /\ UNCHANGED <<ivars, apiKey, calls, pc, req, cur, ret, prev>>

\* one round of the yfinance loop: the request, then a return or a sleep
YfAttempt ==
    /\ mpc = "yf"
    /\ \E o \in YfOutcomes :
          LET s == YfRound(attempt, o)
              ev == NetEvent("yf", cur.period, attempt, o,
                             IF o.k = "raise" THEN Raise(o.e) ELSE s.res)
          IN
          IF s.next = "loop"
          THEN /\ log' = log \o <<ev, SleepEvent(cur.period, s.sleep)>>
               /\ attempt' = attempt + 1
               /\ UNCHANGED <<cache, result, gmdlog, mpc>>
          ELSE EndBody(s.res, Append(log, ev))
    /\ UNCHANGED <<ivars, apiKey, calls, pc, req, cur, ret, prev>>

\* get_data_with_fallback ends with r
EndRequest(r) ==
    /\ ret' = r
    /\ pc' = "done"
    /\ mpc' = "off"

\* get_data_with_fallback, lines 80-90, after the first get_market_data
AfterCall1 ==
    /\ pc = "call1"
    /\ mpc = "ret"
    /\ IF result.t = "raise" THEN EndRequest(result) /\ UNCHANGED <<cur, log>>
       ELSE IF HasData(result.v)
       THEN EndRequest(Ret(result.v)) /\ UNCHANGED <<cur, log>>
       ELSE IF FallbackWanted(req.period)
       THEN /\ pc' = "call2"
            /\ cur' = [ticker |-> req.symbol, period |-> FallbackPeriod]
            /\ mpc' = "enter"
            /\ log' = <<>>
            /\ UNCHANGED ret
       ELSE EndRequest(Ret(None)) /\ UNCHANGED <<cur, log>>
    /\ UNCHANGED <<ivars, apiKey, cache, calls, req, attempt, result,
                   gmdlog, prev>>

\* ... and after the second, for the fallback period
AfterCall2 ==
    /\ pc = "call2"
    /\ mpc = "ret"
    /\ IF result.t = "raise" THEN EndRequest(result)
       ELSE IF HasData(result.v) THEN EndRequest(Ret(result.v))
       ELSE EndRequest(Ret(None))
    /\ UNCHANGED <<ivars, apiKey, cache, calls, req, cur, attempt, result, log,
                   gmdlog, prev>>

\* whether the request got its data from the second get_market_data call
ServedByFallback == Len(gmdlog) = 2 /\ ret.t = "return" /\ HasData(ret.v)

\* whether every get_market_data call of the request ran its body
AllFetched == \A i \in 1..Len(gmdlog) : ~gmdlog[i].hit

\* the record of a run that began a time-to-live ago or more: the widgets
\* keep their values, what the run returned no longer matters
Forgotten(r) ==
    [any |-> TRUE, symbol |-> r.symbol, period |-> r.period, ret |-> Ret(None),
     fb |-> FALSE, fetched |-> FALSE, age |-> TTL]

\* the page run is over; the next one may begin
Finish ==
    /\ pc = "done"
    /\ prev' = IF req.age < TTL
               THEN [any |-> TRUE, symbol |-> req.symbol, period |-> req.period,
                     ret |-> ret, fb |-> ServedByFallback, fetched |-> AllFetched,
                     age |-> req.age]
               ELSE Forgotten(req)
    /\ pc' = "idle"
    /\ req' = NoReq
    /\ cur' = NoCur
    /\ attempt' = 0
    /\ result' = Ret(None)
    /\ ret' = Ret(None)
    /\ log' = <<>>
    /\ gmdlog' = <<>>
    /\ UNCHANGED <<ivars, apiKey, cache, calls, mpc>>

\* time passes: between page runs, and between the two get_market_data calls
\* of one run (the first may have waited for timeouts and slept)
Tick ==
    /\ pc = "idle" \/ (pc = "call2" /\ mpc = "enter")
    /\ cache' = Later(cache, TickStep)
    /\ req' = IF req = NoReq THEN NoReq
              ELSE IF req.age + TickStep < TTL
              THEN [req EXCEPT !.age = req.age + TickStep]
              ELSE [req EXCEPT !.age = TTL]
    /\ prev' = IF ~prev.any THEN prev
               ELSE IF prev.age + TickStep < TTL
               THEN [prev EXCEPT !.age = prev.age + TickStep]
               ELSE Forgotten(prev)
    /\ UNCHANGED <<ivars, apiKey, calls, pc, mpc, cur, attempt, result, ret, log, gmdlog>>

\* main() runs for the first time
Open ==
    /\ calls = 0
    /\ Request

\* main() runs again with the widgets as they are: the script reruns on
\* every interaction with the page
Rerun ==
    /\ pc = "idle"
    /\ prev.any
    /\ calls < 1 + MaxReruns
    /\ req' = [symbol |-> prev.symbol, period |-> prev.period, age |-> 0]
    /\ cur' = [ticker |-> prev.symbol, period |-> prev.period]
    /\ calls' = calls + 1
    /\ pc' = "call1"
    /\ mpc' = "enter"
    /\ UNCHANGED <<ivars, apiKey, cache, attempt, result, ret, log, gmdlog, prev>>

\* page runs with any inputs
Next ==
    \/ Request
    \/ CacheHit
    \/ EmptyTicker
    \/ EnterBody
    \/ AlphaNoKey
    \/ AlphaFetch
    \/ YfAttempt
    \/ AfterCall1
    \/ AfterCall2
    \/ Finish
    \/ Tick

Spec == Init /\ [][Next]_vars

\* one page run with any inputs, then reruns of it
NextRerun ==
    \/ Open
    \/ Rerun
    \/ CacheHit
    \/ EmptyTicker
    \/ EnterBody
    \/ AlphaNoKey
    \/ AlphaFetch
    \/ YfAttempt
    \/ AfterCall1
    \/ AfterCall2
    \/ Finish
    \/ Tick

SpecRerun == Init /\ [][NextRerun]_vars

\* a step of a running get_data_with_fallback call
Step ==
    \/ CacheHit
    \/ EmptyTicker
    \/ EnterBody
    \/ AlphaNoKey
    \/ AlphaFetch
    \/ YfAttempt
    \/ AfterCall1
    \/ AfterCall2

\* a running call goes on: the interpreter runs it, and every request to a
\* provider comes back, with data or with an exception (requests.get has
\* timeout=15, and yfinance its own)
FairRerun == Init /\ [][NextRerun]_vars /\ WF_vars(Step)

\* get_data_with_fallback(symbol, period) called with any period string:
\* neither it nor get_market_data looks at the string before the
\* providers are asked
DirectCall ==
    /\ pc = "idle"
    /\ calls < MaxCalls
    /\ \E symbol \in RawSymbols, period \in AnyPeriods :
          /\ req' = [symbol |-> symbol, period |-> period, age |-> 0]
          /\ cur' = [ticker |-> symbol, period |-> period]
    /\ calls' = calls + 1
    /\ pc' = "call1"
    /\ mpc' = "enter"
    /\ UNCHANGED <<ivars, apiKey, cache, attempt, result, ret, log, gmdlog, prev>>

\* calls with any period string
NextDirect ==
    \/ DirectCall
    \/ CacheHit
    \/ EmptyTicker
    \/ EnterBody
    \/ AlphaNoKey
    \/ AlphaFetch
    \/ YfAttempt
    \/ AfterCall1
    \/ AfterCall2
    \/ Finish
    \/ Tick

SpecDirect == Init /\ [][NextDirect]_vars

\* the indicators, applied to a series: no request is running
InitIndicators ==
    /\ apiKey \in BOOLEAN
    /\ cache = [k \in Keys |-> NoEntry]
    /\ calls = 0
    /\ pc = "idle"
    /\ req = NoReq
    /\ mpc = "off"
    /\ cur = NoCur
    /\ attempt = 0
    /\ result = Ret(None)
    /\ ret = Ret(None)
    /\ log = <<>>
    /\ gmdlog = <<>>
    /\ prev = NoPrev
    /\ ipc = "input"
    /\ history \in Histories
    /\ benchmark_history \in Benchmarks
    /\ indicators = NoIndicators
    /\ metricas = _empty_metrics

fvars == <<apiKey, cache, calls, pc, req, mpc, cur, attempt,
           result, ret, log, gmdlog, prev>>

\* main(), line 435: indicators = calculate_indicators(history, benchmark_history)
Calculate ==
    /\ ipc = "input"
    /\ indicators' = calculate_indicators(history, benchmark_history)
    /\ ipc' = "calculated"
    /\ UNCHANGED <<fvars, history, benchmark_history, metricas>>

\* calcular_metricas of metrics.py on the same series
CalculateMetrics ==
    /\ ipc = "calculated"
    /\ metricas' = metrics_calcular_metricas(history)
    /\ ipc' = "done"
    /\ UNCHANGED <<fvars, history, benchmark_history, indicators>>

NextIndicators ==
    \/ Calculate
    \/ CalculateMetrics

SpecIndicators == InitIndicators /\ [][NextIndicators]_vars

(* ============================== claims ================================ *)

\* the get_market_data call that log is about has ended
Returned == mpc = "ret" \/ pc = "done"

\* an attempt that failed with a rate-limit signal
RateLimitMsgs == {MsgTooMany, Msg429}
RateLimited(ev) == IsNet(ev) /\ ev.o.k = "raise" /\ ev.o.e \in RateLimitMsgs

\* an attempt that failed with a transport error or an unparsable response
OtherFailure(ev) == IsNet(ev) /\ ev.o.k = "raise" /\ ev.o.e \notin RateLimitMsgs

(* ------------------------------- C1 ------------------------------------ *)

\* C1: within one get_market_data call, a provider whose fetch failed with a
\* rate-limit signal is not attempted again (nor slept for); after a
\* rate-limited primary the secondary is attempted next; and when the
\* primary was rate-limited and the secondary's first answer is a non-empty
\* series, the call returns that series.
C1_RateLimitFallsThrough ==
    /\ \A i \in 1..Len(log) : \A j \in (i + 1)..Len(log) :
          RateLimited(log[i]) =>
              /\ log[j].p # log[i].p
              /\ log[i].p = "yf" => log[j].p # "sleep"
    /\ \A i \in 1..Len(log) :
          (RateLimited(log[i]) /\ log[i].p = "alpha") =>
              /\ i < Len(log) => (log[i + 1].p = "yf" /\ log[i + 1].n = 1)
              /\ i = Len(log) => mpc = "yf"
    /\ \A i \in 1..Len(log) :
          (RateLimited(log[i]) /\ log[i].p = "yf") => (i = Len(log) /\ Returned)
    /\ (/\ Returned
        /\ Len(log) >= 2
        /\ RateLimited(log[1])
        /\ log[1].p = "alpha"
        /\ log[2].o.k = "df"
        /\ DropAllNaN(log[2].o.df) # <<>>)
       => (/\ Len(log) = 2
           /\ result.t = "return"
           /\ HasData(result.v)
           /\ result.v.rows = SortIndex(DropAllNaN(log[2].o.df)))

\* the primary was rate-limited and the secondary's series was returned
C1_Witness ==
    /\ Returned
    /\ Len(log) = 2
    /\ RateLimited(log[1])
    /\ log[1].p = "alpha"
    /\ log[2].o.df = FrameShort
    /\ result = Ret(Some(<<Row(9, 10, 50), Row(3, 11, NaN)>>))

(* ------------------------------- C2 ------------------------------------ *)

RepeatsPrev ==
    /\ prev.any
    /\ prev.symbol = req.symbol
    /\ prev.period = req.period
    /\ prev.age < TTL

\* C3: a request for a period other than "6mo" whose first get_market_data
\* call gives no data makes the fallback call for "6mo" and returns that
\* call's series when it has one; and a request that repeats, within the
\* time-to-live, one that the providers served that way returns the same
\* series with no request to a provider.
C3_FallbackThenCached ==
    /\ (/\ pc = "done"
        /\ req.period # "6mo"
        /\ ~HasData(gmdlog[1].res.v))
       => (/\ Len(gmdlog) = 2
           /\ gmdlog[2].period = "6mo"
           /\ HasData(gmdlog[2].res.v) => ret = Ret(gmdlog[2].res.v))
    /\ (/\ pc = "done"
        /\ RepeatsPrev
        /\ prev.fb
        /\ prev.fetched)
       => (/\ ret = prev.ret
           /\ \A i \in 1..Len(gmdlog) : gmdlog[i].hit /\ ~gmdlog[i].net
           /\ log = <<>>)

\* a request served by the fallback is repeated and answered from the cache
C3_Witness ==
    /\ pc = "done"
    /\ RepeatsPrev
    /\ prev.fb
    /\ prev.fetched
    /\ req.period = "1y"
    /\ Len(gmdlog) = 2
    /\ HasData(ret.v)
    /\ ret = prev.ret

(* ------------------------------- C4 ------------------------------------ *)

\* a fully normalized, non-empty series: rows in date order, none of them
\* missing in every column
IsSeries(x) ==
    /\ ~x.none
    /\ x.rows # <<>>
    /\ \A i \in 1..Len(x.rows) : ~(x.rows[i].c = NaN /\ x.rows[i].v = NaN)
    /\ \A i \in 1..(Len(x.rows) - 1) : x.rows[i].age >= x.rows[i + 1].age

\* C4: every cache entry holds a fully normalized, non-empty series, and a
\* get_market_data call that follows one that ended with no data for the same
\* key asks the providers again (or has an empty ticker).
C4_CacheHoldsOnlySeries ==
    /\ \A k \in Keys : cache[k].set => IsSeries(cache[k].val)
    /\ \A i \in 1..Len(gmdlog) : gmdlog[i].hit => HasData(gmdlog[i].res.v)

(* ------------------------------- C5 ------------------------------------ *)

\* C5: after a request whose get_market_data(s, p) fetched a series, a
\* get_market_data(s2, p) within the time-to-live, for any s2 that normalizes
\* to the same ticker as s, returns that series and asks no provider.
C5_KeyIsNormalizedSymbol ==
    (/\ pc = "call1"
     /\ mpc = "ret"
     /\ prev.any
     /\ prev.fetched
     /\ ~prev.fb
     /\ HasData(prev.ret.v)
     /\ Upper(Strip(prev.symbol)) = Upper(Strip(req.symbol))
     /\ prev.period = req.period
     /\ prev.age < TTL)
    => (result = prev.ret /\ log = <<>>)

(* ------------------------------- C6 ------------------------------------ *)

\* C6: when the fallback call supplied the result of a request for (s, P),
\* the cache holds that series under the key of P.
C6_CachedUnderRequestedPeriod ==
    (pc = "done" /\ ServedByFallback) =>
        \E k \in Keys :
            /\ Upper(Strip(k[1])) = Upper(Strip(req.symbol))
            /\ k[2] = req.period
            /\ cache[k].set
            /\ cache[k].val = ret.v

(* ------------------------------- C7 ------------------------------------ *)

\* the primary's fetch handed get_market_data a non-empty series
GaveData(ev) == ev.res.t = "return" /\ ~ev.res.v.none /\ ev.res.v.rows # <<>>

\* C7: in one get_market_data call Alpha Vantage is asked before yfinance
\* and never after it; with an API key, yfinance is asked only once Alpha
\* Vantage has answered without a series; and when Alpha Vantage gave a series
\* the call ends there, with that series and no yfinance request.
C7_ProvidersInOrder ==
    /\ \A i \in 1..Len(log) : log[i].p = "alpha" => i = 1
    /\ (apiKey /\ (mpc = "yf" \/ \E i \in 1..Len(log) : log[i].p = "yf"))
       => (/\ log # <<>>
           /\ log[1].p = "alpha"
           /\ ~GaveData(log[1]))
    /\ (log # <<>> /\ log[1].p = "alpha" /\ GaveData(log[1]))
       => (/\ Len(log) = 1
           /\ Returned
           /\ mpc # "yf"
           /\ gmdlog[Len(gmdlog)].res = log[1].res)

\* Alpha Vantage gave a series and the call ended with it
C7_Witness ==
    /\ mpc = "ret"
    /\ Len(log) = 1
    /\ log[1].p = "alpha"
    /\ log[1].o.df = FrameLong
    /\ cur.period = "1y"
    /\ result = Ret(Some(<<Row(20, 9, 60)>>))

(* ------------------------------- C8 ------------------------------------ *)

\* a value the callers may get: the absent marker or a non-empty series
SeriesOrAbsent(r) ==
    /\ r.t = "return"
    /\ r.v.none \/ r.v.rows # <<>>

\* C8: whatever the providers did, get_market_data and
\* get_data_with_fallback end by returning a series or the absent marker,
\* never by raising.
C8_NeverRaises ==
    /\ mpc = "ret" => SeriesOrAbsent(result)
    /\ \A i \in 1..Len(gmdlog) : SeriesOrAbsent(gmdlog[i].res)
    /\ pc = "done" => SeriesOrAbsent(ret)

\* both providers raised on every attempt of the fallback call, and the
\* request still returned the absent marker
C8_Witness ==
    /\ pc = "done"
    /\ Len(gmdlog) = 2
    /\ Len(log) = 6
    /\ log[1].p = "alpha" /\ log[1].o.e = MsgDecode
    /\ log[6].p = "yf" /\ log[6].o.e = MsgTimeout
    /\ ret = Ret(None)

(* ------------------------------- C9 ------------------------------------ *)

\* the lookback of a period in days; "max" is the longest
Lookback(period) ==
    CASE period = "1mo" -> 31
      [] period = "6mo" -> 186
      [] period = "1y" -> 366
      [] period = "5y" -> 1827
      [] OTHER -> 1000000

\* C9: the period of the fallback call is strictly shorter than the period
\* requested.
C9_FallbackIsShorter ==
    pc = "call2" => Lookback(cur.period) < Lookback(req.period)

(* ------------------------------- C10 ----------------------------------- *)

\* a symbol that is empty once trimmed
Blank(symbol) == \A i \in 1..Len(symbol) : symbol[i] = " "

\* C10: with a symbol that is empty after trimming, get_market_data asks no
\* provider and returns the absent marker.
C10_EmptySymbolNoNetwork ==
    Blank(cur.ticker) =>
        /\ mpc \notin {"alpha", "yf"}
        /\ log = <<>>
        /\ mpc = "ret" => result = Ret(None)
        /\ \A i \in 1..Len(gmdlog) : ~gmdlog[i].net /\ gmdlog[i].res = Ret(None)

\* the body ran for a blank symbol and returned the absent marker
C10_Witness ==
    /\ mpc = "ret"
    /\ cur.ticker = <<" ">>
    /\ ~gmdlog[Len(gmdlog)].hit
    /\ result = Ret(None)

(* ------------------------------- C11 ----------------------------------- *)

\* the usage error of an unknown period
MsgInvalidPeriod == <<"InvalidPeriod">>

\* C11: a request whose period is outside the supported enumeration asks no
\* provider, makes no second get_market_data call, and ends by raising
\* InvalidPeriod.
C11_UnknownPeriodRejected ==
    (pc # "idle" /\ req.period \notin Periods) =>
        /\ mpc \notin {"alpha", "yf"}
        /\ \A i \in 1..Len(log) : ~IsNet(log[i])
        /\ \A i \in 1..Len(gmdlog) : ~gmdlog[i].net
        /\ pc # "call2"
        /\ pc = "done" => ret = Raise(MsgInvalidPeriod)

(* ------------------------------- C12 ----------------------------------- *)

\* a field that is None, or not in the dict
Absent(f) == f.k \in {"none", "missing"}

\* the daily returns of the series handed to the indicators
DailyReturns == Rs(PctChange(DropnaClose(history)))

\* C12: for a series with fewer than 2 valid closes every field of the
\* indicator set is absent: what calculate_indicators returns, and what
\* calcular_metricas of metrics.py returns.
C12_ShortSeriesAllAbsent ==
    Len(DropnaClose(history)) < 2 =>
        /\ ipc \in {"calculated", "done"} =>
              \A f \in DOMAIN indicators : Absent(indicators[f])
        /\ ipc = "done" => \A f \in DOMAIN metricas : Absent(metricas[f])

(* ------------------------------- C13 ----------------------------------- *)

\* C13: the Sharpe ratio is absent, and not a not-a-number, when there are
\* fewer than 2 daily returns or their standard deviation is zero or
\* undefined.
C13_SharpeAbsentWithoutSpread ==
    (Len(DailyReturns) < 2 \/ Std(DailyReturns) \in {FNaN, Num(0)}) =>
        /\ ipc \in {"calculated", "done"} => Absent(indicators.sharpe_ratio)
        /\ ipc = "done" => Absent(metricas.sharpe_ratio)

(* ------------------------------- C14 ----------------------------------- *)

\* requests to providers of the running request so far: those of its
\* get_market_data calls that have ended, and those of the one running
Attempts ==
    SumSeq([i \in 1..Len(gmdlog) |-> gmdlog[i].alpha + gmdlog[i].yf])
    + (IF mpc \in {"enter", "alpha", "yf"}
       THEN CountOf(log, "alpha") + CountOf(log, "yf") ELSE 0)

C14_Bounded ==
    /\ Len(gmdlog) <= 2
    /\ \A i \in 1..Len(gmdlog) :
          gmdlog[i].alpha <= 1 /\ gmdlog[i].yf <= 3 /\ gmdlog[i].sleeps <= 2
    /\ CountOf(log, "alpha") <= 1
    /\ CountOf(log, "yf") <= 3
    /\ CountOf(log, "sleep") <= 2
    /\ Attempts <= 8

\* C14: a get_data_with_fallback call makes at most 2 get_market_data
\* calls, each with at most 1 Alpha Vantage request, 3 yfinance requests
\* and 2 sleeps, so at most 8 requests in all, and it ends.
C14_TerminatesWithinEight ==
    /\ []C14_Bounded
    /\ (pc \in {"call1", "call2"}) ~> (pc = "done")

\* a call that ended after 8 requests and 4 sleeps
C14_Witness ==
    /\ pc = "done"
    /\ Len(gmdlog) = 2
    /\ \A i \in 1..2 :
          gmdlog[i].alpha = 1 /\ gmdlog[i].yf = 3 /\ gmdlog[i].sleeps = 2
    /\ Attempts = 8

====
